---- MODULE Spec2Model ----
(***************************************************************************)
(* A model of src/palette_manager.py (class PaletteManager).               *)
(*                                                                         *)
(* Representation of Python values:                                        *)
(*  - a hex colour string is the sequence of the characters that follow    *)
(*    its first character, each character given as its base-16 digit value *)
(*    0..15, or NonHex for a character that is no hex digit:               *)
(*    "#ff0000" is <<15,15,0,0,0,0>>;                                      *)
(*  - a float is an exact fraction <<numerator, denominator>> in lowest    *)
(*    terms (binary rounding of the floats is not modelled);               *)
(*  - an optional argument is <<>> for None and <<v>> for the value v;     *)
(*  - a ratio of color_indices is given in hundredths (0.06 is 6);         *)
(*  - a dict is a function on its key set.                                 *)
(***************************************************************************)
EXTENDS Integers, Sequences, FiniteSets, TLC

VARIABLES
  file,                  \* the document at config_path
  config,                \* self.config
  palette,               \* self.palette      (HSL objects)
  palette_hex,           \* self.palette_hex  (hex strings)
  colors,                \* self.colors       (name -> HSL object)
  current_palette_name,  \* self.current_palette_name
  catalog,               \* the colours of the pypalettes catalog
  last                   \* the last call: its name, argument, outcome and
                         \* returned value

vars == <<file, config, palette, palette_hex, colors, current_palette_name,
          catalog, last>>

(***************************************************************************)
(* Python values                                                           *)
(***************************************************************************)
None == <<>>

Some(v) == <<v>>

NonHex == 16

EmptyDict == [k \in {} |-> 0]

RECURSIVE Gcd(_, _)
Gcd(a, b) == IF b = 0 THEN a ELSE Gcd(b, a % b)

\* the fraction n/d (d > 0, n >= 0) in lowest terms
Frac(n, d) == LET g == Gcd(n, d) IN <<n \div g, d \div g>>

FracLess(x, y) == x[1] * y[2] < y[1] * x[2]

Max3(a, b, c) == IF a >= b /\ a >= c THEN a ELSE IF b >= c THEN b ELSE c

Min3(a, b, c) == IF a <= b /\ a <= c THEN a ELSE IF b <= c THEN b ELSE c

\* s[lo:hi] of Python for 0 <= lo <= hi (0-based, hi excluded), on a sequence
Slice(s, lo, hi) ==
  LET top == IF hi < Len(s) THEN hi ELSE Len(s)
  IN  IF lo >= top THEN <<>> ELSE SubSeq(s, lo + 1, top)

\* int(digits, 16) raises ValueError on an empty string or a non-hex character
IntRaises(ds) == ds = <<>> \/ \E i \in 1..Len(ds) : ds[i] = NonHex

RECURSIVE Int16(_)
Int16(ds) ==
  IF ds = <<>> THEN 0
  ELSE 16 * Int16(SubSeq(ds, 1, Len(ds) - 1)) + ds[Len(ds)]

\* hex_color[1:3], [3:5], [5:7]: the digits after the first character
RedDigits(c) == Slice(c, 0, 2)

GreenDigits(c) == Slice(c, 2, 4)

BlueDigits(c) == Slice(c, 4, 6)

HexRaises(c) ==
  IntRaises(RedDigits(c)) \/ IntRaises(GreenDigits(c)) \/ IntRaises(BlueDigits(c))

\* colorsys.rgb_to_hls on r/255, g/255, b/255, as the triple <<h, l, s>>
rgb_to_hls(r, g, b) ==
  LET maxc   == Max3(r, g, b)
      minc   == Min3(r, g, b)
      sumc   == maxc + minc
      rangec == maxc - minc
      l      == Frac(sumc, 510)
      s      == IF 2 * sumc <= 510 THEN Frac(rangec, sumc)
                ELSE Frac(rangec, 510 - sumc)
      \* 6 * rangec * h before the "% 1.0"
      hnum   == IF r = maxc THEN g - b
                ELSE IF g = maxc THEN 2 * rangec + (b - r)
                ELSE 4 * rangec + (r - g)
      h      == Frac(hnum % (6 * rangec), 6 * rangec)
  IN  IF minc = maxc THEN <<Frac(0, 1), l, Frac(0, 1)>> ELSE <<h, l, s>>

\* coldtype's hsl(h, s, l) colour object
hsl(h, s, l) == [h |-> h, s |-> s, l |-> l]

Black == hsl(Frac(0, 1), Frac(0, 1), Frac(0, 1))

_get_hls_hue_safe(hex_color) ==
  IF HexRaises(hex_color) THEN Frac(0, 1)
  ELSE rgb_to_hls(Int16(RedDigits(hex_color)), Int16(GreenDigits(hex_color)),
                  Int16(BlueDigits(hex_color)))[1]

\* the body of the conversion loop of _load_base_palette
HexToHsl(c) ==
  IF HexRaises(c) THEN Black
  ELSE LET hls == rgb_to_hls(Int16(RedDigits(c)), Int16(GreenDigits(c)),
                             Int16(BlueDigits(c)))
       IN  hsl(hls[1], hls[3], hls[2])

ConvertAll(hexes) == [i \in 1..Len(hexes) |-> HexToHsl(hexes[i])]

(***************************************************************************)
(* The palette catalog (pypalettes): get_colors._load_palettes() gives the *)
(* ordered palette names, load_cmap(name).colors the hex strings of one.   *)
(* The catalog is an input of the program: NumPalettes names, and for each *)
(* name its colours, held in the variable catalog as                       *)
(* [special |-> index -> colours, other |-> the colours of every other].   *)
(***************************************************************************)
NumPalettes == 838

\* "#0000ff", "#ff0000", "#00ff00", "#ffff00", "#808080", "#zz0000"
Blue == <<0, 0, 0, 0, 15, 15>>

Red == <<15, 15, 0, 0, 0, 0>>

Green == <<0, 0, 15, 15, 0, 0>>

Yellow == <<15, 15, 15, 15, 0, 0>>

Grey == <<8, 0, 8, 0, 8, 0>>

BadHex == <<NonHex, NonHex, 0, 0, 0, 0>>

\* self.palette_names[i], for 0 <= i < NumPalettes
PaletteName(i) == <<"palette", i>>

palette_names == [i \in 1..NumPalettes |-> PaletteName(i - 1)]

\* seventeen colours: blue, then sixteen times red
Gradient == [i \in 1..17 |-> IF i = 1 THEN Blue ELSE Red]

MainCatalog ==
  [special |-> (0 :> <<Blue, Red, Green>>) @@ (1 :> <<Green, BadHex, Grey, Green>>)
               @@ (836 :> Gradient),
   other   |-> <<Yellow, Blue>>]

\* load_cmap(name).colors
load_cmap(name) ==
  IF name[2] \in DOMAIN catalog.special THEN catalog.special[name[2]]
  ELSE catalog.other

(***************************************************************************)
(* _load_base_palette: sorting and sampling                                *)
(***************************************************************************)
\* sorted(cs, key=_get_hls_hue_safe): the key is taken once per element and
\* the sort is stable, so element i comes before element j exactly when its
\* key is smaller, or equal with i < j.  (SubSeq makes TLC compute the keys
\* and the ranks once.)
SortedByHue(cs) ==
  LET n    == Len(cs)
      key  == SubSeq([i \in 1..n |-> _get_hls_hue_safe(cs[i])], 1, n)
      rank == SubSeq([i \in 1..n |->
                        Cardinality({j \in 1..n : \/ FracLess(key[j], key[i])
                                                  \/ key[j] = key[i] /\ j < i}) + 1],
                     1, n)
  IN  [r \in 1..n |-> cs[CHOOSE i \in 1..n : rank[i] = r]]

InSeq(x, s) == \E i \in 1..Len(s) : s[i] = x

\* len(sorted_colors) // (max_colors - 1) if max_colors > 1 else 1
SampleStep(n, max_colors) ==
  IF max_colors > 1 THEN n \div (max_colors - 1) ELSE 1

\* sorted_colors[i * step] raises IndexError for some i in range(max_colors)
SampleRaises(n, max_colors) ==
  \E i \in 0..(max_colors - 1) : i * SampleStep(n, max_colors) >= n

\* the try block: the strided samples, the last one replaced by the last
\* sorted colour when that colour is not among them
SampleSorted(sorted_colors, max_colors) ==
  LET step     == SampleStep(Len(sorted_colors), max_colors)
      base_hex == [i \in 1..max_colors |-> sorted_colors[(i - 1) * step + 1]]
      lastc    == sorted_colors[Len(sorted_colors)]
  IN  IF max_colors > 0 /\ ~InSeq(lastc, base_hex)
      THEN [i \in 1..max_colors |-> IF i = max_colors THEN lastc ELSE base_hex[i]]
      ELSE base_hex

\* base_hex without the sampling branch
BaseHex_mutant_unsampled(cs, max_colors) == cs

\* base_hex hue-sorted also when no sampling is needed
BaseHex_mutant_always_sorts(cs, max_colors) ==
  IF Len(cs) > max_colors
  THEN IF SampleRaises(Len(cs), max_colors)
       THEN SubSeq(cs, 1, max_colors)
       ELSE SampleSorted(SortedByHue(cs), max_colors)
  ELSE SortedByHue(cs)

\* base_hex of _load_base_palette for the fetched colours cs
BaseHex(cs, max_colors) ==
  IF Len(cs) > max_colors
  THEN IF SampleRaises(Len(cs), max_colors)
       THEN SubSeq(cs, 1, max_colors)   \* except: list(cmap.colors)[:max_colors]
       ELSE SampleSorted(SortedByHue(cs), max_colors)
  ELSE cs

(***************************************************************************)
(* _shuffle, _rotate, _assign_named_colors                                 *)
(***************************************************************************)
\* One draw of the generator.  numpy's PCG64 is outside the repository: the
\* model keeps what _shuffle relies on, a generator whose draws are fixed by
\* the seed, and uses a small multiplicative congruential one in its place.
NextDraw(x) == (75 * x) % 65537

SwapAt(s, i, j) == [s EXCEPT ![i] = s[j], ![j] = s[i]]

\* Fisher-Yates from position i down to 2, drawing from state x
RECURSIVE FisherYates(_, _, _)
FisherYates(s, i, x) ==
  IF i <= 1 THEN s
  ELSE FisherYates(SwapAt(s, i, (NextDraw(x) % i) + 1), i - 1, NextDraw(x))

\* rng = default_rng(seed); indices = arange(n); rng.shuffle(indices)
\* (positions are 1-based here)
ShuffledIndices(seed, n) == FisherYates([i \in 1..n |-> i], n, seed % 65537)

\* a comprehension that takes the first drawn index every time
TakeAt_mutant_repeats_first(s, indices) ==
  [k \in 1..Len(indices) |-> s[indices[1]]]

\* [s[i] for i in indices]
TakeAt(s, indices) == [k \in 1..Len(indices) |-> s[indices[k]]]

\* _shuffle that reorders self.palette only
_shuffle_mutant_hex_kept(pal, hex, seed) ==
  IF pal = <<>> THEN [palette |-> pal, palette_hex |-> hex]
  ELSE LET sd      == IF seed = None THEN 42 ELSE seed[1]
           indices == ShuffledIndices(sd, Len(pal))
       IN  [palette |-> TakeAt(pal, indices), palette_hex |-> hex]

\* _shuffle(seed) on the pair (self.palette, self.palette_hex); seed optional
_shuffle(pal, hex, seed) ==
  IF pal = <<>> THEN [palette |-> pal, palette_hex |-> hex]
  ELSE LET sd      == IF seed = None THEN 42 ELSE seed[1]
           indices == ShuffledIndices(sd, Len(pal))
       IN  [palette |-> TakeAt(pal, indices), palette_hex |-> TakeAt(hex, indices)]

\* a rotation to the left
DequeRotate_mutant_left(s, r) ==
  [i \in 1..Len(s) |-> s[((i - 1 + r) % Len(s)) + 1]]

\* deque(s).rotate(r) for 0 < r < len(s): the last r elements come first
DequeRotate(s, r) ==
  [i \in 1..Len(s) |-> s[((i - 1 - r) % Len(s)) + 1]]

\* _rotate that takes the magnitude of a negative amount
_rotate_mutant_abs(pal, hex, amount) ==
  IF pal = <<>> THEN [palette |-> pal, palette_hex |-> hex]
  ELSE LET amt           == IF amount = None THEN 0 ELSE amount[1]
           rotate_amount == (IF amt < 0 THEN -amt ELSE amt) % Len(pal)
       IN  IF rotate_amount # 0
           THEN [palette     |-> DequeRotate(pal, rotate_amount),
                 palette_hex |-> DequeRotate(hex, rotate_amount)]
           ELSE [palette |-> pal, palette_hex |-> hex]

\* _rotate(amount) on the pair (self.palette, self.palette_hex); amount optional
_rotate(pal, hex, amount) ==
  IF pal = <<>> THEN [palette |-> pal, palette_hex |-> hex]
  ELSE LET amt           == IF amount = None THEN 0 ELSE amount[1]
           rotate_amount == amt % Len(pal)
       IN  IF rotate_amount # 0
           THEN [palette     |-> DequeRotate(pal, rotate_amount),
                 palette_hex |-> DequeRotate(hex, rotate_amount)]
           ELSE [palette |-> pal, palette_hex |-> hex]

\* int(float(index_ratio) * n) % n, the ratio in hundredths and not negative
NamedIndex(ratio, n) == ((ratio * n) \div 100) % n

\* the value of self.colors after _assign_named_colors()
_assign_named_colors(pal, cfg) ==
  IF Len(pal) = 0 THEN EmptyDict
  ELSE [name \in DOMAIN cfg.color_indices |->
          pal[NamedIndex(cfg.color_indices[name], Len(pal)) + 1]]

(***************************************************************************)
(* The config document                                                     *)
(***************************************************************************)
DefaultConfig ==
  [palette_idx   |-> 836,
   seed          |-> Some(42),
   rotate_amount |-> Some(0),
   max_colors    |-> 16,
   color_indices |-> [bg |-> 6, fg |-> 62]]

\* the file at config_path: absent, unparseable, or a JSON object
Missing == [kind |-> "missing", doc |-> EmptyDict]

Malformed == [kind |-> "malformed", doc |-> EmptyDict]

Document(d) == [kind |-> "doc", doc |-> d]

\* json.load raises JSONDecodeError, which _load_config does not catch
LoadConfigRaises(f) == f.kind = "malformed"

\* the defaults written over what the file holds
WithDefaults_mutant_defaults_win(d) ==
  [k \in (DOMAIN d) \cup (DOMAIN DefaultConfig) |->
     IF k \in DOMAIN DefaultConfig THEN DefaultConfig[k] ELSE d[k]]

\* config_data after the five setdefault calls
WithDefaults(d) ==
  [k \in (DOMAIN d) \cup (DOMAIN DefaultConfig) |->
     IF k \in DOMAIN d THEN d[k] ELSE DefaultConfig[k]]

\* the value _load_config returns when it does not raise
_load_config(f) ==
  IF f.kind = "missing" THEN DefaultConfig ELSE WithDefaults(f.doc)

(***************************************************************************)
(* _load_base_palette and apply_config_transforms as functions of the      *)
(* fields they read                                                        *)
(***************************************************************************)
\* cfg with the palette index corrected (lines 94-97)
ClampedConfig(cfg) ==
  IF 0 <= cfg.palette_idx /\ cfg.palette_idx < Len(palette_names)
  THEN cfg
  ELSE [cfg EXCEPT !.palette_idx = 0]

\* _load_base_palette without line 97: the corrected index is not stored
_load_base_palette_mutant_no_writeback(cfg, fetched) ==
  LET cfg1     == ClampedConfig(cfg)
      name     == palette_names[cfg1.palette_idx + 1]
      base_hex == IF fetched THEN BaseHex(load_cmap(name), cfg1.max_colors)
                  ELSE <<>>
  IN  [config               |-> cfg,
       current_palette_name |-> name,
       palette_hex          |-> base_hex,
       palette              |-> ConvertAll(base_hex)]

\* config, current_palette_name, palette_hex and palette after
\* _load_base_palette(); fetched: whether load_cmap returned
_load_base_palette(cfg, fetched) ==
  LET cfg1     == ClampedConfig(cfg)
      name     == palette_names[cfg1.palette_idx + 1]
      base_hex == IF fetched THEN BaseHex(load_cmap(name), cfg1.max_colors)
                  ELSE <<>>
  IN  [config               |-> cfg1,
       current_palette_name |-> name,
       palette_hex          |-> base_hex,
       palette              |-> ConvertAll(base_hex)]

\* apply_config_transforms that rotates before it shuffles
apply_transforms_mutant_rotate_first(pal, hex, cfg) ==
  LET ro == _rotate(pal, hex, cfg.rotate_amount)
      sh == _shuffle(ro.palette, ro.palette_hex, cfg.seed)
  IN  [palette     |-> sh.palette,
       palette_hex |-> sh.palette_hex,
       colors      |-> _assign_named_colors(sh.palette, cfg)]

\* palette, palette_hex and colors after apply_config_transforms()
apply_transforms(pal, hex, cfg) ==
  LET sh == _shuffle(pal, hex, cfg.seed)
      ro == _rotate(sh.palette, sh.palette_hex, cfg.rotate_amount)
  IN  [palette     |-> ro.palette,
       palette_hex |-> ro.palette_hex,
       colors      |-> _assign_named_colors(ro.palette, cfg)]

(***************************************************************************)
(* Inputs                                                                  *)
(***************************************************************************)
FileDocs ==
  {Missing, Malformed,
   Document([palette_idx |-> NumPalettes, seed |-> None, rotate_amount |-> Some(1),
             max_colors |-> 3, version |-> 2])}

SeedArgs == {None, Some(155)}

RotateArgs == {None, Some(-1), Some(6)}

IndexArgs == {-1, 1, 836, NumPalettes}

UpdateArgs ==
  {<<"color_indices", [bg |-> 50, accent |-> 150]>>, <<"accent", 90>>}

\* what a call returns: nothing (__init__, a raising call), the engine
\* itself ("return self"), a colour, or a drawable (its elements in order)
Returns(kind, color, drawable) ==
  [kind |-> kind, color |-> color, drawable |-> drawable]

NoResult == Returns("none", Black, <<>>)

Self == Returns("self", Black, <<>>)

\* the record of a constructor call or of a call of a chainable method
Call(op, arg, raised, fetched) ==
  [op |-> op, arg |-> arg, raised |-> raised, fetched |-> fetched,
   result |-> IF raised \/ op \in {"init", "edit_file"} THEN NoResult ELSE Self]

\* the record of a lookup or preview call, which returns a value
Lookup(op, arg, result) ==
  [op |-> op, arg |-> arg, raised |-> FALSE, fetched |-> "none",
   result |-> result]

(***************************************************************************)
(* __init__                                                                *)
(***************************************************************************)
\* the fields as lines 23-28 leave them; self.config is not yet bound
InitRaised(f) ==
  /\ file = f
  /\ config = EmptyDict
  /\ palette = <<>>
  /\ palette_hex = <<>>
  /\ colors = EmptyDict
  /\ current_palette_name = <<>>
  /\ last = Call("init", None, TRUE, "none")

\* a constructor that applies the config transforms
InitDone_mutant_applies_transforms(f, fetched) ==
  LET b == _load_base_palette(_load_config(f), fetched)
      t == apply_transforms(b.palette, b.palette_hex, b.config)
  IN  /\ file = f
      /\ config = b.config
      /\ palette = t.palette
      /\ palette_hex = t.palette_hex
      /\ colors = t.colors
      /\ current_palette_name = b.current_palette_name
      /\ last = Call("init", None, FALSE, IF fetched THEN "ok" ELSE "failed")

InitDone(f, fetched) ==
  LET b == _load_base_palette(_load_config(f), fetched)
  IN  /\ file = f
      /\ config = b.config
      /\ palette = b.palette
      /\ palette_hex = b.palette_hex
      /\ colors = EmptyDict
      /\ current_palette_name = b.current_palette_name
      /\ last = Call("init", None, FALSE, IF fetched THEN "ok" ELSE "failed")

Init ==
  /\ catalog = MainCatalog
  /\ \E f \in FileDocs :
       IF LoadConfigRaises(f) THEN InitRaised(f)
       ELSE \E fetched \in BOOLEAN : InitDone(f, fetched)

\* a PaletteManager exists: its constructor returned
Constructed == ~(last.op = "init" /\ last.raised)

(***************************************************************************)
(* The public methods, one action each                                     *)
(***************************************************************************)
\* shuffle that prefers the config's seed to its argument
shuffle_mutant_config_seed_first(seed) ==
  LET current_seed == IF config.seed # None THEN config.seed ELSE seed
      sh           == _shuffle(palette, palette_hex, current_seed)
  IN  /\ Constructed
      /\ palette' = sh.palette
      /\ palette_hex' = sh.palette_hex
      /\ colors' = _assign_named_colors(sh.palette, config)
      /\ last' = Call("shuffle", seed, FALSE, "none")
      /\ UNCHANGED <<file, config, current_palette_name, catalog>>

\* shuffle(seed=None)
shuffle(seed) ==
  LET current_seed == IF seed # None THEN seed ELSE config.seed
      sh           == _shuffle(palette, palette_hex, current_seed)
  IN  /\ Constructed
      /\ palette' = sh.palette
      /\ palette_hex' = sh.palette_hex
      /\ colors' = _assign_named_colors(sh.palette, config)
      /\ last' = Call("shuffle", seed, FALSE, "none")
      /\ UNCHANGED <<file, config, current_palette_name, catalog>>

\* rotate that leaves self.colors as it was
rotate_mutant_stale_names(amount) ==
  LET rotate_amount == IF amount # None THEN amount ELSE config.rotate_amount
      ro            == _rotate(palette, palette_hex, rotate_amount)
  IN  /\ Constructed
      /\ palette' = ro.palette
      /\ palette_hex' = ro.palette_hex
      /\ last' = Call("rotate", amount, FALSE, "none")
      /\ UNCHANGED <<file, config, colors, current_palette_name, catalog>>

\* rotate(amount=None)
rotate(amount) ==
  LET rotate_amount == IF amount # None THEN amount ELSE config.rotate_amount
      ro            == _rotate(palette, palette_hex, rotate_amount)
  IN  /\ Constructed
      /\ palette' = ro.palette
      /\ palette_hex' = ro.palette_hex
      /\ colors' = _assign_named_colors(ro.palette, config)
      /\ last' = Call("rotate", amount, FALSE, "none")
      /\ UNCHANGED <<file, config, current_palette_name, catalog>>

apply_config_transforms ==
  LET t == apply_transforms(palette, palette_hex, config)
  IN  /\ Constructed
      /\ palette' = t.palette
      /\ palette_hex' = t.palette_hex
      /\ colors' = t.colors
      /\ last' = Call("apply_config_transforms", None, FALSE, "none")
      /\ UNCHANGED <<file, config, current_palette_name, catalog>>

\* update_config that stores the value under any key
UpdatedConfig_mutant_adds_key(cfg, key, value) ==
  [k \in (DOMAIN cfg) \cup {key} |-> IF k = key THEN value ELSE cfg[k]]

\* self.config after update_config(key, value)
UpdatedConfig(cfg, key, value) ==
  IF key \in DOMAIN cfg THEN [cfg EXCEPT ![key] = value] ELSE cfg

\* update_config that also writes the file
update_config_mutant_autosave(key, value) ==
  /\ Constructed
  /\ config' = UpdatedConfig(config, key, value)
  /\ file' = Document(UpdatedConfig(config, key, value))
  /\ last' = Call("update_config", <<key, value>>, FALSE, "none")
  /\ UNCHANGED <<palette, palette_hex, colors, current_palette_name, catalog>>

update_config(key, value) ==
  /\ Constructed
  /\ config' = UpdatedConfig(config, key, value)
  /\ last' = Call("update_config", <<key, value>>, FALSE, "none")
  /\ UNCHANGED <<file, palette, palette_hex, colors, current_palette_name, catalog>>

\* load_palette_by_index that returns after a failed fetch, before the
\* transforms and the naming
load_palette_by_index_mutant_early_return(index, fetched) ==
  LET b == _load_base_palette(UpdatedConfig(config, "palette_idx", index), fetched)
      t == apply_transforms(b.palette, b.palette_hex, b.config)
  IN  /\ Constructed
      /\ config' = b.config
      /\ current_palette_name' = b.current_palette_name
      /\ palette' = t.palette
      /\ palette_hex' = t.palette_hex
      /\ colors' = IF fetched THEN t.colors ELSE colors
      /\ last' = Call("load_palette_by_index", Some(index), FALSE,
                      IF fetched THEN "ok" ELSE "failed")
      /\ UNCHANGED <<file, catalog>>

\* load_palette_by_index that keeps the lists it holds when the index is the
\* stored one
load_palette_by_index_mutant_keeps_loaded(index, fetched) ==
  LET b == _load_base_palette(UpdatedConfig(config, "palette_idx", index), fetched)
      t == IF index = config.palette_idx /\ fetched
           THEN apply_transforms(palette, palette_hex, b.config)
           ELSE apply_transforms(b.palette, b.palette_hex, b.config)
  IN  /\ Constructed
      /\ config' = b.config
      /\ current_palette_name' = b.current_palette_name
      /\ palette' = t.palette
      /\ palette_hex' = t.palette_hex
      /\ colors' = t.colors
      /\ last' = Call("load_palette_by_index", Some(index), FALSE,
                      IF fetched THEN "ok" ELSE "failed")
      /\ UNCHANGED <<file, catalog>>

\* load_palette_by_index(index); fetched: whether load_cmap returned
load_palette_by_index(index, fetched) ==
  LET b == _load_base_palette(UpdatedConfig(config, "palette_idx", index), fetched)
      t == apply_transforms(b.palette, b.palette_hex, b.config)
  IN  /\ Constructed
      /\ config' = b.config
      /\ current_palette_name' = b.current_palette_name
      /\ palette' = t.palette
      /\ palette_hex' = t.palette_hex
      /\ colors' = t.colors
      /\ last' = Call("load_palette_by_index", Some(index), FALSE,
                      IF fetched THEN "ok" ELSE "failed")
      /\ UNCHANGED <<file, catalog>>

\* reload(): _load_config raises before self.config is assigned
reload_raises ==
  /\ Constructed
  /\ LoadConfigRaises(file)
  /\ last' = Call("reload", None, TRUE, "none")
  /\ UNCHANGED <<file, config, palette, palette_hex, colors, current_palette_name,
                  catalog>>

reload(fetched) ==
  LET b == _load_base_palette(_load_config(file), fetched)
      t == apply_transforms(b.palette, b.palette_hex, b.config)
  IN  /\ Constructed
      /\ ~LoadConfigRaises(file)
      /\ config' = b.config
      /\ current_palette_name' = b.current_palette_name
      /\ palette' = t.palette
      /\ palette_hex' = t.palette_hex
      /\ colors' = t.colors
      /\ last' = Call("reload", None, FALSE, IF fetched THEN "ok" ELSE "failed")
      /\ UNCHANGED <<file, catalog>>

\* save_config(); written: whether open() and json.dump went through
save_config(written) ==
  /\ Constructed
  /\ file' = IF written THEN Document(config) ELSE file
  /\ last' = Call("save_config", None, FALSE, "none")
  /\ UNCHANGED <<config, palette, palette_hex, colors, current_palette_name, catalog>>

\* the user edits or removes the file at config_path between two calls
edit_file(f) ==
  /\ Constructed
  /\ f # file
  /\ file' = f
  /\ last' = Call("edit_file", None, FALSE, "none")
  /\ UNCHANGED <<config, palette, palette_hex, colors, current_palette_name, catalog>>

(***************************************************************************)
(* Lookups and preview: they read the fields and return a value            *)
(***************************************************************************)
\* get_color(name): self.colors.get(name, hsl(0,0,0))
get_color(name) == IF name \in DOMAIN colors THEN colors[name] ELSE Black

call_get_color(name) ==
  /\ Constructed
  /\ last' = Lookup("get_color", Some(name), Returns("color", get_color(name), <<>>))
  /\ UNCHANGED <<file, config, palette, palette_hex, colors, current_palette_name,
                  catalog>>

\* self[index] with the black of an empty palette at every index
__getitem___mutant_no_wrap(index) ==
  IF palette = <<>> \/ index < 0 \/ index >= Len(palette) THEN Black
  ELSE palette[index + 1]

\* self[index]
__getitem__(index) ==
  IF palette = <<>> THEN Black
  ELSE palette[(index % Len(palette)) + 1]

call_getitem(index) ==
  /\ Constructed
  /\ last' = Lookup("__getitem__", Some(index),
                    Returns("color", __getitem__(index), <<>>))
  /\ UNCHANGED <<file, config, palette, palette_hex, colors, current_palette_name,
                  catalog>>

\* one element appended to box: the palette name ("name", no cell), a colour
\* box ("swatch", no text) or a hex label ("label"), with its fill colour
Element(kind, cell, text, fill) ==
  [kind |-> kind, cell |-> cell, text |-> text, fill |-> fill]

\* a label styled with the colour of its own swatch
CellElements_mutant_own_colour(i, label_offset, text_ok) ==
  <<Element("swatch", i, <<>>, __getitem__(i))>>
  \o (IF text_ok
      THEN <<Element("label", i, palette_hex[i + 1], __getitem__(i))>>
      ELSE <<>>)

\* the elements of cell i (0-based): the swatch, then the label when its
\* text was rendered
CellElements(i, label_offset, text_ok) ==
  <<Element("swatch", i, <<>>, __getitem__(i))>>
  \o (IF text_ok
      THEN <<Element("label", i, palette_hex[i + 1],
                     __getitem__((i + label_offset) % Len(palette)))>>
      ELSE <<>>)

RECURSIVE Cells(_, _, _)
Cells(n, label_offset, text_ok) ==
  IF n = 0 THEN <<>>
  ELSE Cells(n - 1, label_offset, text_ok)
       \o CellElements(n - 1, label_offset, text_ok)

\* the box preview(rect, label_offset=...) returns; text_ok: whether the
\* StSt(...) calls of the two try blocks went through
PreviewBox(label_offset, text_ok) ==
  IF Len(palette) = 0 THEN <<>>
  ELSE (IF text_ok
        THEN <<Element("name", -1, current_palette_name,
                       __getitem__(Len(palette) \div 2))>>
        ELSE <<>>)
       \o Cells(Len(palette), label_offset, text_ok)

preview(label_offset, text_ok) ==
  /\ Constructed
  /\ last' = Lookup("preview", <<label_offset, text_ok>>,
                    Returns("drawable", Black, PreviewBox(label_offset, text_ok)))
  /\ UNCHANGED <<file, config, palette, palette_hex, colors, current_palette_name,
                  catalog>>

Next ==
  \/ \E seed \in SeedArgs : shuffle(seed)
  \/ \E amount \in RotateArgs : rotate(amount)
  \/ apply_config_transforms
  \/ \E u \in UpdateArgs : update_config(u[1], u[2])
  \/ \E index \in IndexArgs, fetched \in BOOLEAN : load_palette_by_index(index, fetched)
  \/ reload_raises
  \/ \E fetched \in BOOLEAN : reload(fetched)
  \/ \E written \in BOOLEAN : save_config(written)
  \/ \E f \in FileDocs : edit_file(f)

Spec == Init /\ [][Next]_vars

(***************************************************************************)
(* The base-palette load alone, over every short catalog palette and every *)
(* max_colors: the catalog holds the colours cs at index 0, the config     *)
(* file names index 0 and max_colors.                                      *)
(***************************************************************************)
MaxSampleLen == 4

SampleColours == {Red, BadHex, Green, Blue}

SampleSeqs == UNION {[1..n -> SampleColours] : n \in 0..MaxSampleLen}

InitSample ==
  \E cs \in SampleSeqs, m \in 0..MaxSampleLen :
    /\ catalog = [special |-> (0 :> cs), other |-> <<>>]
    /\ InitDone(Document([palette_idx |-> 0, max_colors |-> m]), TRUE)

NextSample == \E fetched \in BOOLEAN : load_palette_by_index(0, fetched)

SpecSample == InitSample /\ [][NextSample]_vars

(***************************************************************************)
(* The lookups and preview, on every catalog palette of up to MaxLookupLen *)
(* colours, fetched or not, in base order and transformed.                 *)
(***************************************************************************)
MaxLookupLen == 3

LookupColours == {Red, Green, Blue}

LookupSeqs == UNION {[1..n -> LookupColours] : n \in 1..MaxLookupLen}

LookupNames == {"bg", "fg", "accent"}

LookupIndices == (-(MaxLookupLen + 1))..(MaxLookupLen + 1)

\* label_offset: one, and the default of preview
LabelOffsets == {1, 3}

InitLookup ==
  \E cs \in LookupSeqs, fetched \in BOOLEAN :
    /\ catalog = [special |-> (0 :> cs), other |-> <<>>]
    /\ InitDone(Document([palette_idx |-> 0, rotate_amount |-> Some(1)]), fetched)

NextLookup ==
  \/ \E name \in LookupNames : call_get_color(name)
  \/ \E index \in LookupIndices : call_getitem(index)
  \/ \E label_offset \in LabelOffsets, text_ok \in BOOLEAN :
       preview(label_offset, text_ok)
  \/ apply_config_transforms

SpecLookup == InitLookup /\ [][NextLookup]_vars

(***************************************************************************)
(* Properties                                                              *)
(***************************************************************************)
\* the call named by last returned (it did not raise)
Returned(ops) == last.op \in ops /\ ~last.raised

\* C1: in every reachable state palette_hex and palette have the same length
\* and palette[i] is the HSL conversion of palette_hex[i], for every i.
C1_Aligned ==
  /\ Len(palette) = Len(palette_hex)
  /\ \A i \in 1..Len(palette_hex) : palette[i] = HexToHsl(palette_hex[i])

\* a shuffle has moved the blue tail of the downsampled sixteen-colour palette
C1_Witness ==
  /\ last.op = "shuffle"
  /\ Len(palette_hex) = 16
  /\ palette_hex[16] # Blue
  /\ \E i \in 1..16 : palette_hex[i] = Blue

\* C2: when shuffle, rotate, apply_config_transforms, load_palette_by_index
\* or reload returns, the named colours are those of the palette order of
\* that moment: no name for an empty palette, else the keys of
\* config.color_indices, each bound to palette[floor(ratio * n) mod n].
C2_NamesInSync ==
  Returned({"shuffle", "rotate", "apply_config_transforms",
            "load_palette_by_index", "reload"}) =>
    LET n == Len(palette)
    IN  IF n = 0 THEN colors = EmptyDict
        ELSE /\ DOMAIN colors = DOMAIN config.color_indices
             /\ \A name \in DOMAIN colors :
                  colors[name] =
                    palette[(((config.color_indices[name] * n) \div 100) % n) + 1]

\* a rotate of the sixteen-colour palette under the updated color_indices,
\* where "accent" (ratio 1.5) wraps around to the blue colour at index 8
C2_Witness ==
  /\ last.op = "rotate"
  /\ Len(palette) = 16
  /\ DOMAIN colors = {"bg", "accent"}
  /\ palette_hex[9] = Blue
  /\ colors["accent"] = HexToHsl(Blue)

\* construction found no config file, so the defaults, and the fetch of
\* palette 836 succeeded
DefaultConstruction ==
  /\ Returned({"init"})
  /\ config = DefaultConfig
  /\ config.palette_idx < NumPalettes
  /\ last.fetched = "ok"

\* C3 as claimed: right after a construction without config file (palette
\* 836 in the catalog, fetched) the palette is non-empty, has at most 16
\* colours, and the named colours have exactly the keys bg and fg.
C3_Original ==
  DefaultConstruction =>
    /\ palette # <<>>
    /\ Len(palette) <= 16
    /\ DOMAIN colors = {"bg", "fg"}

\* C3 amended: right after such a construction the palette is non-empty and
\* has at most 16 colours, and the named colours are still empty; their keys
\* are exactly bg and fg once apply_config_transforms has returned under the
\* default config.
C3_Amended ==
  /\ DefaultConstruction =>
       /\ palette # <<>>
       /\ Len(palette) <= 16
       /\ colors = EmptyDict
  /\ (Returned({"apply_config_transforms"}) /\ config = DefaultConfig
        /\ palette # <<>>) =>
       DOMAIN colors = {"bg", "fg"}

\* the seventeen catalog colours of palette 836 were sampled down to sixteen
C3_Witness ==
  /\ DefaultConstruction
  /\ Len(load_cmap(current_palette_name)) = 17
  /\ Len(palette) = 16

OutOfRange(index) == index < 0 \/ index >= NumPalettes

Count(s, x) == Cardinality({i \in 1..Len(s) : s[i] = x})

\* s and t hold the same elements, each as often
IsPermutation(s, t) ==
  /\ Len(s) = Len(t)
  /\ \A i \in 1..Len(s) : Count(s, s[i]) = Count(t, s[i])

\* the engine holds catalog palette 0: index, name and, when fetched, colours
HoldsPaletteZero ==
  /\ ~last.raised
  /\ config.palette_idx = 0
  /\ current_palette_name = palette_names[1]
  /\ last.fetched = "ok" =>
       IsPermutation(palette_hex,
                     BaseHex(load_cmap(palette_names[1]), config.max_colors))

\* C5: load_palette_by_index with an index outside [0, NumPalettes), and a
\* construction or reload whose file stores such an index, do not raise, load
\* catalog palette 0 and leave config.palette_idx = 0; after every load the
\* stored index is in range and current_palette_name is the name at it.
C5_IndexClamped ==
  /\ (last.op = "load_palette_by_index" /\ OutOfRange(last.arg[1])) =>
       HoldsPaletteZero
  /\ (/\ last.op \in {"init", "reload"}
      /\ file.kind = "doc"
      /\ "palette_idx" \in DOMAIN file.doc
      /\ OutOfRange(file.doc.palette_idx)) =>
       HoldsPaletteZero
  /\ Returned({"init", "load_palette_by_index", "reload"}) =>
       /\ config.palette_idx \in 0..(NumPalettes - 1)
       /\ current_palette_name = palette_names[config.palette_idx + 1]

\* load_palette_by_index(-1) has loaded the three colours of palette 0
C5_Witness ==
  /\ last.op = "load_palette_by_index"
  /\ last.arg = Some(-1)
  /\ last.fetched = "ok"
  /\ Len(palette) = 3

\* the amount a rotate(arg) call passes to _rotate under the config cfg
EffectiveAmount(arg, cfg) ==
  LET a == IF arg # None THEN arg ELSE cfg.rotate_amount
  IN  IF a = None THEN 0 ELSE a[1]

\* the state after rotate(-k mod n), called in the state a rotate(k) step
\* has just reached
RotatedBack ==
  LET k    == EffectiveAmount(last'.arg, config)
      back == _rotate(palette', palette_hex', Some((-k) % Len(palette)))
  IN  [palette     |-> back.palette,
       palette_hex |-> back.palette_hex,
       colors      |-> _assign_named_colors(back.palette, config')]

\* C6 as claimed: on a non-empty palette of length n, rotate(k) followed by
\* rotate(-k mod n) restores palette, palette_hex and the named colours to
\* what they were before the first rotate.
C6_Original ==
  [][(last'.op = "rotate" /\ palette # <<>>) =>
       /\ RotatedBack.palette = palette
       /\ RotatedBack.palette_hex = palette_hex
       /\ RotatedBack.colors = colors]_vars

\* C6 amended: rotate(k) followed by rotate(-k mod n) restores palette and
\* palette_hex, and restores the named colours when they were those of the
\* palette order and config.color_indices before the first rotate (they are
\* not right after construction, nor after update_config of color_indices).
C6_Amended ==
  [][(last'.op = "rotate" /\ palette # <<>>) =>
       /\ RotatedBack.palette = palette
       /\ RotatedBack.palette_hex = palette_hex
       /\ colors = _assign_named_colors(palette, config) =>
            RotatedBack.colors = colors]_vars

\* rotate(-1) has moved the blue colour of the sixteen-colour palette, with
\* names assigned
C6_Witness ==
  /\ last.op = "rotate"
  /\ last.arg = Some(-1)
  /\ Len(palette) = 16
  /\ palette_hex[16] # Blue
  /\ colors # EmptyDict

\* C7: rotate(k) on a palette of length n > 0 moves the element at index i
\* to index (i + k) mod n, in palette and in palette_hex; with k = 0 mod n,
\* and on an empty palette, both lists stay as they are.
C7_RightRotation ==
  [][last'.op = "rotate" =>
       LET n == Len(palette)
           k == EffectiveAmount(last'.arg, config)
       IN  IF n = 0 THEN palette' = <<>> /\ palette_hex' = palette_hex
           ELSE /\ Len(palette') = n
                /\ Len(palette_hex') = n
                /\ \A i \in 0..(n - 1) :
                     /\ palette'[((i + k) % n) + 1] = palette[i + 1]
                     /\ palette_hex'[((i + k) % n) + 1] = palette_hex[i + 1]
                /\ k % n = 0 =>
                     palette' = palette /\ palette_hex' = palette_hex]_vars

\* rotate(6) on the four colours of palette 1 (k >= n) has them in an order
\* that is not the catalog's
C7_Witness ==
  /\ last.op = "rotate"
  /\ last.arg = Some(6)
  /\ Len(palette_hex) = 4
  /\ palette_hex # load_cmap(current_palette_name)

\* C8: shuffle(seed) applies to palette and palette_hex the one permutation
\* fixed by the seed and the palette length, whatever else the engine holds;
\* the seed is the argument, else config.seed, else 42.
C8_ShuffleBySeed ==
  [][last'.op = "shuffle" =>
       LET sd   == IF last'.arg # None THEN last'.arg[1]
                   ELSE IF config.seed # None THEN config.seed[1]
                   ELSE 42
           perm == ShuffledIndices(sd, Len(palette))
       IN  /\ palette' = TakeAt(palette, perm)
           /\ palette_hex' = TakeAt(palette_hex, perm)]_vars

\* shuffle() with neither an argument nor a config seed, on three colours
C8_Witness ==
  /\ last.op = "shuffle"
  /\ last.arg = None
  /\ config.seed = None
  /\ Len(palette) = 3

\* C9: a failed fetch does not raise and leaves palette and palette_hex
\* empty; with an empty palette there are no named colours and get_color
\* gives black for every name; shuffle, rotate and apply_config_transforms
\* on an empty palette return and keep it empty.
C9_EmptyPalette ==
  /\ [](/\ last.fetched = "failed" =>
             ~last.raised /\ palette = <<>> /\ palette_hex = <<>>
        /\ palette = <<>> =>
             /\ colors = EmptyDict
             /\ \A name \in LookupNames : get_color(name) = Black)
  /\ [][(/\ palette = <<>>
         /\ last'.op \in {"shuffle", "rotate", "apply_config_transforms"}) =>
          ~last'.raised /\ palette' = <<>> /\ palette_hex' = <<>>]_vars

\* a rotate on the palette a failed fetch has emptied
C9_Witness ==
  /\ Constructed
  /\ last.op = "rotate"
  /\ palette = <<>>
  /\ config.palette_idx = 1

\* C10: the config of a constructed engine holds the five keys; a load from
\* a missing file does not raise and gives the default document; a load from
\* a file that is a document keeps every key of the file (its value too,
\* palette_idx being corrected to 0 when out of range) and gives every
\* missing key its default.
C10_ConfigComplete ==
  /\ Constructed => DOMAIN DefaultConfig \subseteq DOMAIN config
  /\ (last.op \in {"init", "reload"} /\ file.kind = "missing") =>
       ~last.raised /\ config = DefaultConfig
  /\ (Returned({"init", "reload"}) /\ file.kind = "doc") =>
       /\ \A k \in DOMAIN file.doc :
            /\ k \in DOMAIN config
            /\ config[k] = IF k = "palette_idx" /\ OutOfRange(file.doc[k])
                           THEN 0 ELSE file.doc[k]
       /\ \A k \in (DOMAIN DefaultConfig) \ (DOMAIN file.doc) :
            config[k] = DefaultConfig[k]

\* a reload from the partial file: its max_colors kept, color_indices filled
C10_Witness ==
  /\ Returned({"reload"})
  /\ file.kind = "doc"
  /\ "color_indices" \notin DOMAIN file.doc
  /\ "version" \in DOMAIN config
  /\ config.max_colors = 3
  /\ config.color_indices = DefaultConfig.color_indices

\* C11 as claimed: a config load (construction, reload) from a file whose
\* content is no parseable document does not raise and gives the default
\* document, as a missing file does.
C11_MalformedGivesDefaults ==
  (last.op \in {"init", "reload"} /\ file.kind = "malformed") =>
    ~last.raised /\ config = DefaultConfig

\* C12: update_config(key, value) does not raise, leaves palette,
\* palette_hex, the named colours, the palette name and the file as they
\* are, and leaves config as it is when key is not in it, else changes the
\* field key, and only that one, to value.
C12_UpdateFrame ==
  [][last'.op = "update_config" =>
       LET key   == last'.arg[1]
           value == last'.arg[2]
       IN  /\ ~last'.raised
           /\ palette' = palette
           /\ palette_hex' = palette_hex
           /\ colors' = colors
           /\ current_palette_name' = current_palette_name
           /\ file' = file
           /\ DOMAIN config' = DOMAIN config
           /\ \A k \in DOMAIN config :
                config'[k] = IF k = key THEN value ELSE config[k]]_vars

\* update_config("accent", ...) on a config that has no such key, after an
\* update of color_indices that left the named colours of before
C12_Witness ==
  /\ last.op = "update_config"
  /\ last.arg[1] = "accent"
  /\ "accent" \notin DOMAIN config
  /\ DOMAIN config.color_indices = {"bg", "accent"}
  /\ DOMAIN colors = {"bg", "fg"}

\* the document a load from file f gives: the file's keys and the defaults'
\* keys, the file's value where it has one, palette_idx corrected
LoadedFrom(f, cfg) ==
  /\ DOMAIN cfg = (DOMAIN f.doc) \cup (DOMAIN DefaultConfig)
  /\ \A k \in DOMAIN cfg :
       LET v == IF k \in DOMAIN f.doc THEN f.doc[k] ELSE DefaultConfig[k]
       IN  cfg[k] = IF k = "palette_idx" /\ OutOfRange(v) THEN 0 ELSE v

\* C13: the engine changes the file only in save_config, which writes the
\* in-memory config; shuffle, rotate, apply_config_transforms and save_config
\* leave the config as it is and update_config and load_palette_by_index
\* keep its keys; a reload that returns leaves the config the file gives,
\* whatever the config was, so that an update that was not saved is gone.
C13_PersistOnlyOnSave ==
  [][/\ file' # file => last'.op \in {"save_config", "edit_file"}
     /\ (last'.op = "save_config" /\ file' # file) => file' = Document(config)
     /\ last'.op \in {"shuffle", "rotate", "apply_config_transforms",
                      "save_config", "edit_file"} => config' = config
     /\ last'.op \in {"update_config", "load_palette_by_index"} =>
          DOMAIN config' = DOMAIN config
     /\ last'.op = "reload" =>
          IF last'.raised THEN config' = config
          ELSE LoadedFrom(file, config')]_vars

\* an update of color_indices that no save has written: no file exists
C13_Witness ==
  /\ last.op = "update_config"
  /\ file.kind = "missing"
  /\ DOMAIN config.color_indices = {"bg", "accent"}
  /\ ~LoadedFrom(file, config)

\* the hex strings _load_base_palette left for the palette the engine holds
\* (a failed fetch leaves none; max_colors changes only with a reload here)
BaseOf(hex, name, cfg) ==
  IF hex = <<>> THEN <<>>
  ELSE BaseHex(load_cmap(name), cfg.max_colors)

CurrentBase == BaseOf(palette_hex, current_palette_name, config)

\* the (hex, HSL) pairs of two aligned lists
Pairs(hex, pal) == [i \in 1..Len(hex) |-> <<hex[i], pal[i]>>]

\* C14: in every state of a constructed engine the (hex, HSL) pairs of the
\* palette are those of the freshly loaded base palette, each as often, and
\* the length is the base's; a step that changes the length or the multiset
\* of pairs is a load_palette_by_index or a reload.
C14_OnlyPermuted ==
  /\ [](Constructed =>
          IsPermutation(Pairs(palette_hex, palette),
                        Pairs(CurrentBase, ConvertAll(CurrentBase))))
  /\ [][~IsPermutation(Pairs(palette_hex', palette'), Pairs(palette_hex, palette))
          => last'.op \in {"load_palette_by_index", "reload"}]_vars

\* rotate(6) on a three-colour palette that an earlier shuffle or rotate has
\* taken out of base order
C14_Witness ==
  /\ last.op = "rotate"
  /\ last.arg = Some(6)
  /\ Len(palette) = 3
  /\ palette_hex # CurrentBase
  /\ colors # EmptyDict

\* C15: get_color and the indexed lookup do not raise and change no field;
\* get_color(name) returns colors[name] when name is a key and black
\* otherwise; self[i] returns black on an empty palette and otherwise the
\* palette colour at the index in 0..n-1 congruent to i modulo n.
C15_Lookups ==
  [][/\ last'.op \in {"get_color", "__getitem__"} =>
          /\ ~last'.raised
          /\ last'.result.kind = "color"
          /\ UNCHANGED <<file, config, palette, palette_hex, colors,
                          current_palette_name, catalog>>
     /\ last'.op = "get_color" =>
          LET name == last'.arg[1]
          IN  last'.result.color =
                IF name \in DOMAIN colors THEN colors[name] ELSE Black
     /\ last'.op = "__getitem__" =>
          LET i == last'.arg[1]
              n == Len(palette)
          IN  IF n = 0 THEN last'.result.color = Black
              ELSE \E r \in 0..(n - 1) :
                     /\ (i - r) % n = 0
                     /\ last'.result.color = palette[r + 1]]_vars

\* self[-4] on three colours gave the last one, which is not the first
C15_Witness ==
  /\ last.op = "__getitem__"
  /\ last.arg = Some(-4)
  /\ Len(palette) = 3
  /\ last.result.color = palette[3]
  /\ palette[3] # palette[1]

\* the list s shuffled with the seed of cfg (42 when it has none), then
\* rotated to the right by the rotate_amount of cfg (0 when it has none)
ConfigTransformed(s, cfg) ==
  LET n  == Len(s)
      sd == IF cfg.seed = None THEN 42 ELSE cfg.seed[1]
      k  == IF cfg.rotate_amount = None THEN 0 ELSE cfg.rotate_amount[1]
      sh == SubSeq(TakeAt(s, ShuffledIndices(sd, n)), 1, n)
  IN  [i \in 1..n |-> sh[((i - 1 - k) % n) + 1]]

\* C16 as claimed: whenever apply_config_transforms returns, the palette is
\* the current base palette shuffled with config.seed and then rotated by
\* config.rotate_amount, and the named colours are those of that order.
C16_Original ==
  [][last'.op = "apply_config_transforms" =>
       LET base == BaseOf(palette_hex', current_palette_name', config')
       IN  /\ palette_hex' = ConfigTransformed(base, config')
           /\ palette' = ConfigTransformed(ConvertAll(base), config')
           /\ colors' = _assign_named_colors(palette', config')]_vars

\* C16 amended: apply_config_transforms shuffles the palette as it is when
\* called with config.seed, then rotates it by config.rotate_amount, and the
\* named colours are those of the final order; the result is the base
\* palette so transformed when the palette was in base order at the call.
C16_Amended ==
  [][last'.op = "apply_config_transforms" =>
       /\ ~last'.raised
       /\ config' = config
       /\ palette_hex' = ConfigTransformed(palette_hex, config)
       /\ palette' = ConfigTransformed(palette, config)
       /\ colors' = _assign_named_colors(palette', config)
       /\ palette_hex = CurrentBase =>
            palette_hex' = ConfigTransformed(CurrentBase, config)]_vars

\* apply_config_transforms has returned with sixteen colours in an order
\* that is not the transformed base: the palette was not in base order
C16_Witness ==
  /\ last.op = "apply_config_transforms"
  /\ Len(palette_hex) = 16
  /\ palette_hex # ConfigTransformed(CurrentBase, config)
  /\ DOMAIN colors = {"bg", "fg"}

\* C17: load_palette_by_index(i) returns the engine; it leaves the config
\* with palette_idx = i (0 when i is out of range) and its other fields as
\* they were, the name of that palette, the palette
\* rotate(shuffle(base(i), seed), rotate_amount) (empty when the fetch
\* failed) and the named colours of that order, whatever palette, order and
\* named colours the engine held.
C17_LoadIgnoresHistory ==
  [][last'.op = "load_palette_by_index" =>
       LET i   == last'.arg[1]
           idx == IF OutOfRange(i) THEN 0 ELSE i
           cs  == IF last'.fetched = "ok"
                  THEN BaseHex(load_cmap(PaletteName(idx)), config.max_colors)
                  ELSE <<>>
       IN  /\ ~last'.raised
           /\ last'.result = Self
           /\ DOMAIN config' = DOMAIN config
           /\ \A k \in DOMAIN config :
                config'[k] = IF k = "palette_idx" THEN idx ELSE config[k]
           /\ current_palette_name' = PaletteName(idx)
           \* base and hsls range over one value each, computed once
           /\ \A base \in {SubSeq(cs, 1, Len(cs))} :
              \A hsls \in {SubSeq(ConvertAll(base), 1, Len(base))} :
                /\ palette_hex' = ConfigTransformed(base, config)
                /\ palette' = ConfigTransformed(hsls, config)
                /\ colors' = _assign_named_colors(palette', config')]_vars

\* load_palette_by_index(1) under the updated color_indices and the file's
\* rotate_amount: four colours, named bg and accent
C17_Witness ==
  /\ last.op = "load_palette_by_index"
  /\ last.arg = Some(1)
  /\ last.fetched = "ok"
  /\ last.result = Self
  /\ config.rotate_amount = Some(1)
  /\ Len(load_cmap(current_palette_name)) = 4
  /\ Len(palette) = 3
  /\ DOMAIN colors = {"bg", "accent"}

\* C18: after a base-palette load that fetched L colours under
\* max_colors = M >= 1 the palette has min(L, M) colours; when L <= M it is
\* the catalog list in catalog order right after construction, and that list
\* under the config transforms after load_palette_by_index.
C18_LengthAndOrder ==
  LET cs == load_cmap(current_palette_name)
      L  == Len(cs)
      M  == config.max_colors
  IN  (Returned({"init", "load_palette_by_index"}) /\ last.fetched = "ok"
         /\ M >= 1) =>
        /\ Len(palette_hex) = IF L <= M THEN L ELSE M
        /\ Len(palette) = Len(palette_hex)
        /\ L <= M =>
             palette_hex = IF last.op = "init" THEN cs
                           ELSE ConfigTransformed(cs, config)

\* construction with max_colors 4 on three colours that are not in hue
\* order: kept as the catalog has them
C18_Witness ==
  /\ Returned({"init"})
  /\ last.fetched = "ok"
  /\ config.max_colors = 4
  /\ load_cmap(current_palette_name) = <<Blue, Green, Red>>
  /\ palette_hex = <<Blue, Green, Red>>

\* C19: right after construction the palette is the base palette in load
\* order and no named colour is assigned, whatever seed and rotate_amount the
\* config holds; a step that changes the palette order or the named colours
\* is a shuffle, rotate, apply_config_transforms, load_palette_by_index or
\* reload.
C19_ConstructionUntransformed ==
  /\ [](Returned({"init"}) =>
          LET base == IF last.fetched = "ok"
                      THEN BaseHex(load_cmap(current_palette_name),
                                   config.max_colors)
                      ELSE <<>>
          IN  /\ palette_hex = base
              /\ palette = ConvertAll(base)
              /\ colors = EmptyDict)
  /\ [][(palette_hex' # palette_hex \/ palette' # palette \/ colors' # colors) =>
          last'.op \in {"shuffle", "rotate", "apply_config_transforms",
                        "load_palette_by_index", "reload"}]_vars

\* construction from the file that asks for a rotation by one and has no
\* seed: palette 0 as the catalog has it, no names
C19_Witness ==
  /\ Returned({"init"})
  /\ config.rotate_amount = Some(1)
  /\ config.seed = None
  /\ palette_hex = <<Blue, Red, Green>>
  /\ palette_hex # ConfigTransformed(palette_hex, config)
  /\ colors = EmptyDict

\* box holds the element e
Emits(box, e) == \E j \in 1..Len(box) : box[j] = e

\* what preview returns on the palette pal, hex: per cell i its swatch filled
\* with pal[i] and, when the text was rendered, its label with text hex[i]
\* styled with pal[(i + label_offset) mod n]; nothing on an empty palette
PreviewEmits(box, pal, hex, label_offset, text_ok) ==
  LET n == Len(pal)
  IN  IF n = 0 THEN box = <<>>
      ELSE \A i \in 0..(n - 1) :
             /\ Emits(box, Element("swatch", i, <<>>, pal[i + 1]))
             /\ text_ok =>
                  Emits(box, Element("label", i, hex[i + 1],
                                     pal[((i + label_offset) % n) + 1]))

====
